---- MODULE Spec2Model ----
(***************************************************************************)
(* Model of the Master Scoring Model of SimpleStockRank (src/app.py,        *)
(* calculate_master_score) and of the endpoint that calls it.               *)
(*                                                                          *)
(* Number encoding (fixed point, exact):                                    *)
(*   - growth rates, yields, P/E values, years, weights and target_return   *)
(*     are integers in their own unit (percent points, P/E units, years);   *)
(*   - beta and risk_mult are in tenths (beta 1.2 is 12, risk_mult 0.9 is 9);*)
(*   - base_score is in hundredths (the numerator of ".../ 100.0");         *)
(*   - final_score = base_score * risk_mult is in thousandths;              *)
(*   - the reported baseScore (round(base_score, 1)) is in tenths.          *)
(* For integer weights the tier sums are multiples of 10, every value above *)
(* is exactly representable in the source's binary floating point at the    *)
(* magnitudes modelled, and the comparisons of the source agree with the    *)
(* exact ones.                                                              *)
(*                                                                          *)
(* A value of a JSON mapping is a record [t, n]: t = "num" (the number n),  *)
(* "absent" (the key is not in the mapping), "null" (None) or "str" (a      *)
(* string).                                                                 *)
(***************************************************************************)
EXTENDS Integers, FiniteSets, Sequences, TLC

VARIABLES
    request,       \* the ScoreRequest at /api/calculate-score
    report,        \* what calculate_master_score returned for it
    ai_call,       \* the request at an oracle-backed endpoint, with what the
                   \* oracle will do for it
    ai_response,   \* the response of that endpoint
    projects,      \* the rows of table projects of jomo.db, in rowid order
    listing,       \* what GET /api/projects returned last
    last_op,       \* history: for each id, the last store operation on it
    call_args,     \* for each concurrent caller of calculate_master_score,
                   \* the metrics, weights and target_return it passes
    frames,        \* for each caller, the frame of its call: where it is
                   \* and its local variables
    raw_dicts      \* the raw_scores dict objects, by address

score_vars == <<request, report>>
oracle_vars == <<ai_call, ai_response>>
store_vars == <<projects, listing, last_op>>

call_vars == <<call_args, frames, raw_dicts>>

vars ==
    <<request, report, ai_call, ai_response, projects, listing, last_op,
      call_args, frames, raw_dicts>>

\* ---------------------------------------------------------------- values

Num(n) == [t |-> "num", n |-> n]
Absent == [t |-> "absent", n |-> 0]
Null == [t |-> "null", n |-> 0]
Str == [t |-> "str", n |-> 0]

IsNum(v) == v.t = "num"

MetricKeys ==
    {"industry_growth_3yr", "net_profit_growth_5yr", "pe_ratio", "sector_pe",
     "dividend_yield", "dividend_years_consecutive", "company_growth_rate",
     "beta"}

WeightKeys == {"industry", "profit", "mos", "yield_val", "competition"}

\* dict.get(key, default): the default only when the key is absent; a key
\* present with None or a string yields that value.
Get(d, key, default) == IF d[key].t = "absent" THEN Num(default) ELSE d[key]

\* --------------------------------------------------------- scoring tiers

\* 1. Industry Growth (3yr CAGR)
industry_score(ind_growth) ==
    IF ind_growth >= 20 THEN 100
    ELSE IF ind_growth >= 10 THEN 80
    ELSE IF ind_growth >= 0 THEN 60
    ELSE 0

\* 2. Net Profit Growth (5yr CAGR)
profit_score(prof_growth) ==
    IF prof_growth >= 20 THEN 100
    ELSE IF prof_growth >= 10 THEN 80
    ELSE IF prof_growth >= 5 THEN 60
    ELSE IF prof_growth >= 0 THEN 40
    ELSE 0

\* mos_score with the fallback bound included (stock_pe <= 20).
mos_score_fallback_le(stock_pe, sect_pe) ==
    IF sect_pe > 0
    THEN LET mos_num == 100 * (sect_pe - stock_pe)
         IN IF mos_num > 20 * sect_pe THEN 100
            ELSE IF mos_num >= 10 * sect_pe THEN 80
            ELSE IF mos_num >= (-10) * sect_pe THEN 50
            ELSE 0
    ELSE IF stock_pe > 0 /\ stock_pe <= 20 THEN 50 ELSE 0

\* 3. MOS (Valuation). mos_pct = (sect_pe - stock_pe) / sect_pe is compared
\* with 0.20, 0.10 and -0.10; sect_pe > 0 in that branch, so each comparison
\* is the same comparison multiplied through by 100 * sect_pe.
mos_score(stock_pe, sect_pe) ==
    IF sect_pe > 0
    THEN LET mos_num == 100 * (sect_pe - stock_pe)
         IN IF mos_num > 20 * sect_pe THEN 100
            ELSE IF mos_num >= 10 * sect_pe THEN 80
            ELSE IF mos_num >= (-10) * sect_pe THEN 50
            ELSE 0
    ELSE IF stock_pe > 0 /\ stock_pe < 20 THEN 50 ELSE 0

\* 4. Dividend Yield: the tier of a payer that met the 5-year bar.
yield_tier(div_yield) ==
    IF div_yield >= 8 THEN 100
    ELSE IF div_yield >= 5 THEN 80
    ELSE IF div_yield >= 3 THEN 60
    ELSE 30

\* yield_score with the 5-year bar excluded (div_years <= 5).
yield_score_bar_le(div_yield, div_years) ==
    IF div_years <= 5 THEN 0 ELSE yield_tier(div_yield)

\* CRITICAL: If consecutive years < 5, Score = 0
yield_score(div_yield, div_years) ==
    IF div_years < 5 THEN 0 ELSE yield_tier(div_yield)

\* competition_score with the last tier 0, as on the other axes.
competition_score_floor0(comp_growth, ind_growth) ==
    LET diff == comp_growth - ind_growth
    IN IF diff >= 15 THEN 100
       ELSE IF diff >= 5 THEN 80
       ELSE IF diff >= -5 THEN 50
       ELSE 0

\* 5. Competitiveness: diff = comp_growth - ind_growth
competition_score(comp_growth, ind_growth) ==
    LET diff == comp_growth - ind_growth
    IN IF diff >= 15 THEN 100
       ELSE IF diff >= 5 THEN 80
       ELSE IF diff >= -5 THEN 50
       ELSE 20

\* base_score with the yield tier weighted by w_mos.
base_score_yield_by_mos(raw_scores, w_ind, w_prof, w_mos, w_yield, w_comp) ==
    (raw_scores["industry"] * w_ind) +
    (raw_scores["profit"] * w_prof) +
    (raw_scores["mos"] * w_mos) +
    (raw_scores["yield"] * w_mos) +
    (raw_scores["competition"] * w_comp)

\* Step A: the weighted sum, before "/ 100.0" (hundredths of base_score).
base_score(raw_scores, w_ind, w_prof, w_mos, w_yield, w_comp) ==
    (raw_scores["industry"] * w_ind) +
    (raw_scores["profit"] * w_prof) +
    (raw_scores["mos"] * w_mos) +
    (raw_scores["yield"] * w_yield) +
    (raw_scores["competition"] * w_comp)

\* risk_mult with the Conservative middle band ending below 1.2.
risk_mult_conservative_lt(target_return, beta) ==
    IF target_return < 10
    THEN IF beta < 8 THEN 10
         ELSE IF beta < 12 THEN 9
         ELSE 5
    ELSE IF target_return >= 15
    THEN IF beta >= 12 /\ beta <= 25 THEN 10
         ELSE IF beta >= 9 /\ beta < 12 THEN 9
         ELSE 6
    ELSE IF beta >= 7 /\ beta <= 15 THEN 10
         ELSE 8

\* risk_mult with a bonus of 1.1 for the Aggressive match.
risk_mult_bonus(target_return, beta) ==
    IF target_return < 10
    THEN IF beta < 8 THEN 10
         ELSE IF beta <= 12 THEN 9
         ELSE 5
    ELSE IF target_return >= 15
    THEN IF beta >= 12 /\ beta <= 25 THEN 11
         ELSE IF beta >= 9 /\ beta < 12 THEN 9
         ELSE 6
    ELSE IF beta >= 7 /\ beta <= 15 THEN 10
         ELSE 8

\* risk_mult with the Aggressive top band ending below 2.5.
risk_mult_aggressive_lt(target_return, beta) ==
    IF target_return < 10
    THEN IF beta < 8 THEN 10
         ELSE IF beta <= 12 THEN 9
         ELSE 5
    ELSE IF target_return >= 15
    THEN IF beta >= 12 /\ beta < 25 THEN 10
         ELSE IF beta >= 9 /\ beta < 12 THEN 9
         ELSE 6
    ELSE IF beta >= 7 /\ beta <= 15 THEN 10
         ELSE 8

\* Step B: Risk Multiplier Logic (beta and the result in tenths).
risk_mult(target_return, beta) ==
    IF target_return < 10
    THEN IF beta < 8 THEN 10
         ELSE IF beta <= 12 THEN 9
         ELSE 5
    ELSE IF target_return >= 15
    THEN IF beta >= 12 /\ beta <= 25 THEN 10
         ELSE IF beta >= 9 /\ beta < 12 THEN 9
         ELSE 6
    ELSE IF beta >= 7 /\ beta <= 15 THEN 10
         ELSE 8

\* Step C: final_score = base_score * risk_mult (thousandths).
final_score(base, risk) == base * risk

\* grade with the A threshold excluded (final_score > 80).
grade_gt(final) ==
    IF final > 80000 THEN "A"
    ELSE IF final >= 60000 THEN "B"
    ELSE "C"

\* grade, from the untruncated final_score (thousandths).
grade(final) ==
    IF final >= 80000 THEN "A"
    ELSE IF final >= 60000 THEN "B"
    ELSE "C"

\* int replaced by math.floor.
int_floor(final) == final \div 1000

\* int(final_score): truncation toward zero of a value in thousandths.
int(final) ==
    IF final >= 0 THEN final \div 1000 ELSE -((-final) \div 1000)

\* round(base_score, 1): base_score in hundredths to the nearest tenth, ties
\* to the even tenth (the result is in tenths).
round1(base) ==
    LET q == base \div 10
        r == base % 10
    IN IF r < 5 THEN q
       ELSE IF r > 5 THEN q + 1
       ELSE IF q % 2 = 0 THEN q ELSE q + 1

\* ------------------------------------------------- calculate_master_score

TypeError == [status |-> "TypeError"]
NoReport == [status |-> "none"]
NoCall == [endpoint |-> "none"]
NoResponse == [status |-> "none"]

calculate_master_score(metrics, weights, target_return) ==
    LET m == [k \in MetricKeys |->
                 Get(metrics, k, IF k = "beta" THEN 10 ELSE 0)]
        ind_growth == m["industry_growth_3yr"]
        prof_growth == m["net_profit_growth_5yr"]
        stock_pe == m["pe_ratio"]
        sect_pe == m["sector_pe"]
        div_yield == m["dividend_yield"]
        div_years == m["dividend_years_consecutive"]
        comp_growth == m["company_growth_rate"]
        beta == m["beta"]
        w_ind == Get(weights, "industry", 15)
        w_prof == Get(weights, "profit", 25)
        w_mos == Get(weights, "mos", 25)
        w_yield == Get(weights, "yield_val", 20)
        w_comp == Get(weights, "competition", 15)
        \* a comparison or an arithmetic operation on None or on a string
        \* raises TypeError; div_yield is only looked at when div_years >= 5
        raises ==
            \/ ~IsNum(ind_growth)
            \/ ~IsNum(prof_growth)
            \/ ~IsNum(sect_pe)
            \/ ~IsNum(stock_pe)
            \/ ~IsNum(div_years)
            \/ (div_years.n >= 5 /\ ~IsNum(div_yield))
            \/ ~IsNum(comp_growth)
            \/ \E w \in {w_ind, w_prof, w_mos, w_yield, w_comp} : ~IsNum(w)
            \/ ~IsNum(beta)
        raw_scores ==
            [industry |-> industry_score(ind_growth.n),
             profit |-> profit_score(prof_growth.n),
             mos |-> mos_score(stock_pe.n, sect_pe.n),
             yield |-> yield_score(div_yield.n, div_years.n),
             competition |-> competition_score(comp_growth.n, ind_growth.n)]
        base == base_score(raw_scores, w_ind.n, w_prof.n, w_mos.n,
                           w_yield.n, w_comp.n)
        risk == risk_mult(target_return, beta.n)
        final == final_score(base, risk)
    IN IF raises THEN TypeError
       ELSE [status |-> "ok",
             baseScore |-> round1(base),
             finalScore |-> int(final),
             grade |-> grade(final),
             riskMult |-> risk,
             rawScores |-> raw_scores]

\* ----------------------------------------------------------- the inputs

\* Bounds of the input ranges.
MaxGrowth == 22
MaxPE == 26
MaxYield == 10
MaxYears == 7
MaxBeta == 27
MaxTarget == 21
MaxWeightTens == 3

\* What a client can put under a key besides a number.
Malformed == {Absent, Null, Str}

GrowthVals == {Num(n) : n \in -2..MaxGrowth} \cup Malformed
CompanyVals == {Num(n) : n \in -8..(MaxGrowth + 16)} \cup Malformed
PEVals == {Num(n) : n \in -1..MaxPE} \cup Malformed
YieldVals == {Num(n) : n \in 0..MaxYield} \cup Malformed
YearsVals == {Num(n) : n \in 0..MaxYears} \cup Malformed
BetaVals == {Num(n) : n \in 0..MaxBeta} \cup Malformed
TargetVals == 8..MaxTarget
WeightVals == {Num(10 * k) : k \in -1..MaxWeightTens} \cup {Absent}

\* Scenario 1 of the specification.
Scenario1Metrics ==
    [industry_growth_3yr |-> Num(25), net_profit_growth_5yr |-> Num(22),
     pe_ratio |-> Num(10), sector_pe |-> Num(15), dividend_yield |-> Num(9),
     dividend_years_consecutive |-> Num(6), company_growth_rate |-> Num(30),
     beta |-> Num(10)]

Scenario1Weights ==
    [industry |-> Num(15), profit |-> Num(25), mos |-> Num(25),
     yield_val |-> Num(20), competition |-> Num(15)]

\* The empty mappings: every key takes its default.
NoMetrics == [k \in MetricKeys |-> Absent]
NoWeights == [k \in WeightKeys |-> Absent]

\* A middling, volatile stock (beta 2.6).
VolatileMetrics ==
    [industry_growth_3yr |-> Num(5), net_profit_growth_5yr |-> Num(7),
     pe_ratio |-> Num(18), sector_pe |-> Num(20), dividend_yield |-> Num(4),
     dividend_years_consecutive |-> Num(5), company_growth_rate |-> Num(0),
     beta |-> Num(26)]

AnchorMetrics == {Scenario1Metrics, NoMetrics, VolatileMetrics}
AnchorWeights == {Scenario1Weights, NoWeights}
AnchorTargets == {9, 12, 20}

ScoreRequest(metrics, weights, target_return) ==
    [metrics |-> metrics, weights |-> weights, target_return |-> target_return]

\* The requests of the model: every anchor, with the inputs of one scoring
\* axis at a time swept over their whole range.
GrowthSweep ==
    \E a \in AnchorMetrics, i \in GrowthVals, c \in CompanyVals,
       w \in AnchorWeights, t \in AnchorTargets :
        request = ScoreRequest([a EXCEPT !["industry_growth_3yr"] = i,
                                         !["company_growth_rate"] = c], w, t)

ProfitSweep ==
    \E a \in AnchorMetrics, p \in GrowthVals,
       w \in AnchorWeights, t \in AnchorTargets :
        request = ScoreRequest([a EXCEPT !["net_profit_growth_5yr"] = p], w, t)

MosSweep ==
    \E a \in AnchorMetrics, p \in PEVals, s \in PEVals,
       w \in AnchorWeights, t \in AnchorTargets :
        request = ScoreRequest([a EXCEPT !["pe_ratio"] = p,
                                         !["sector_pe"] = s], w, t)

YieldSweep ==
    \E a \in AnchorMetrics, y \in YieldVals, n \in YearsVals,
       w \in AnchorWeights, t \in AnchorTargets :
        request = ScoreRequest([a EXCEPT !["dividend_yield"] = y,
                                         !["dividend_years_consecutive"] = n],
                               w, t)

RiskSweep ==
    \E a \in AnchorMetrics, b \in BetaVals,
       w \in AnchorWeights, t \in TargetVals :
        request = ScoreRequest([a EXCEPT !["beta"] = b], w, t)

WeightSweep ==
    \E a \in AnchorMetrics, w \in [WeightKeys -> WeightVals],
       t \in AnchorTargets :
        request = ScoreRequest(a, w, t)

WeightFaultSweep ==
    \E a \in AnchorMetrics, w \in AnchorWeights, k \in WeightKeys,
       v \in Malformed, t \in AnchorTargets :
        request = ScoreRequest(a, [w EXCEPT ![k] = v], t)

\* ------------------------------------------------- the components at rest

\* Bound of the persistence store's inputs.
MaxProjects == 2

\* Bound of the number of concurrent callers of calculate_master_score.
MaxCallers == 2

Callers == 1..MaxCallers

\* raw_scores = {}
EmptyDict ==
    [industry |-> Absent, profit |-> Absent, mos |-> Absent,
     yield |-> Absent, competition |-> Absent]

\* The frame of a call that has not started.
NoFrame ==
    [pc |-> "call", m |-> NoMetrics, base_score |-> 0, risk_mult |-> 0,
     result |-> NoReport]

CallsIdle ==
    /\ call_args = [c \in Callers |-> ScoreRequest(NoMetrics, NoWeights, 12)]
    /\ frames = [c \in Callers |-> [NoFrame EXCEPT !.pc = "idle"]]
    /\ raw_dicts = [a \in Callers |-> EmptyDict]

\* Project identifiers (ProjectData.id: str).
ProjectIds == {ToString(i) : i \in 1..MaxProjects}

NoListing == <<[id |-> "", name |-> "no listing", targetReturn |-> 0]>>
NoOp == [op |-> "none", doc |-> [id |-> "", name |-> "", targetReturn |-> 0]]

ScoreIdle ==
    /\ request = ScoreRequest(NoMetrics, NoWeights, 12)
    /\ report = NoReport

OracleIdle ==
    /\ ai_call = NoCall
    /\ ai_response = NoResponse

\* init_db on a fresh jomo.db: the table exists and is empty.
StoreIdle ==
    /\ projects = <<>>
    /\ listing = NoListing
    /\ last_op = [i \in ProjectIds |-> NoOp]

\* ------------------------------------------------------ the state machine

\* A request has arrived at /api/calculate-score and is not yet answered.
Init ==
    /\ \/ GrowthSweep
       \/ ProfitSweep
       \/ MosSweep
       \/ YieldSweep
       \/ RiskSweep
       \/ WeightSweep
       \/ WeightFaultSweep
    /\ report = NoReport
    /\ OracleIdle
    /\ StoreIdle
    /\ CallsIdle

\* POST /api/calculate-score: the endpoint returns what calculate_master_score
\* returns, or fails with the TypeError it raises.
calculate_score_endpoint ==
    /\ report = NoReport
    /\ report' = calculate_master_score(request.metrics, request.weights,
                                        request.target_return)
    /\ UNCHANGED <<request, oracle_vars, store_vars, call_vars>>

Next == calculate_score_endpoint

Spec == Init /\ [][Next]_vars

\* ------------------------------- the text-generation oracle and its callers

\* A text is what json.dumps makes of a document (doc), or text that is no
\* JSON (str); NoDoc stands where a text has no document.
NoDoc == [nothing |-> Absent]
JsonText(doc) == [kind |-> "json", str |-> "", doc |-> doc]
PlainText(str) == [kind |-> "plain", str |-> str, doc |-> NoDoc]

json_dumps(doc) == JsonText(doc)

\* json.loads: the document of a JSON text; any other text raises.
json_loads(text) ==
    IF text.kind = "json" THEN [ok |-> TRUE, value |-> text.doc]
    ELSE [ok |-> FALSE, value |-> NoDoc]

Apology ==
    "I'm having trouble connecting to my brain right now. Please check the API Key."

\* The mock document _call_gemini_sync returns in json_mode when the oracle
\* fails.
MockFallback ==
    [industry_growth |-> Num(5), net_profit_growth |-> Num(5),
     mos_status |-> Str, dividend_yield |-> Num(2),
     competition_score |-> Num(50), beta |-> Num(10),
     industry |-> Num(20), profit |-> Num(20), mos |-> Num(20),
     yield_val |-> Num(20), competition |-> Num(20)]

\* analyze_stock's "Mock Default on Error".
DefaultMetricSet ==
    [industry_growth_3yr |-> Num(5), net_profit_growth_5yr |-> Num(5),
     pe_ratio |-> Num(15), sector_pe |-> Num(15), dividend_yield |-> Num(2),
     dividend_years_consecutive |-> Num(5), company_growth_rate |-> Num(5),
     beta |-> Num(10)]

\* suggest_weights' default recommended weights.
default_weights ==
    [industry |-> Num(15), profit |-> Num(25), mos |-> Num(25),
     yield_val |-> Num(20), competition |-> Num(15)]

\* What the oracle does for one call: the GenerativeModel constructor,
\* generate_content or response.text raises, or response.text is a text.
OracleFailures ==
    {[kind |-> "raise", at |-> p, text |-> PlainText("")] :
        p \in {"GenerativeModel", "generate_content", "response.text"}}

OracleTexts ==
    {PlainText("ok"), PlainText(""), PlainText("{not json")}
        \cup {JsonText(d) : d \in AnchorMetrics}
        \cup {JsonText(d) : d \in [WeightKeys -> {Num(10), Num(30)}]}

OracleOutcomes ==
    OracleFailures
        \cup {[kind |-> "text", at |-> "", text |-> t] : t \in OracleTexts}

\* _call_gemini_sync, which call_gemini runs in a thread and awaits: the
\* oracle's text, or on any exception the mock JSON (json_mode) or the
\* apology.
call_gemini_sync(json_mode, outcome) ==
    IF outcome.kind = "raise"
    THEN IF json_mode THEN json_dumps(MockFallback) ELSE PlainText(Apology)
    ELSE outcome.text

call_gemini(json_mode, outcome) == call_gemini_sync(json_mode, outcome)

AiEndpoints ==
    {"chat_jomo", "analyze_stock", "suggest_weights", "generate_verdict",
     "generate_strategy"}

Ok(body) == [status |-> "ok", body |-> body]

\* A request has arrived at one of the oracle-backed endpoints.
InitOracle ==
    /\ ScoreIdle
    /\ StoreIdle
    /\ CallsIdle
    /\ \E e \in AiEndpoints, o \in OracleOutcomes :
           ai_call = [endpoint |-> e, oracle |-> o]
    /\ ai_response = NoResponse

\* POST /api/chat
chat_jomo ==
    /\ ai_call.endpoint = "chat_jomo"
    /\ ai_response = NoResponse
    /\ ai_response' = Ok([reply |-> call_gemini(FALSE, ai_call.oracle)])
    /\ UNCHANGED <<score_vars, ai_call, store_vars, call_vars>>

\* POST /api/analyze-stock
analyze_stock ==
    /\ ai_call.endpoint = "analyze_stock"
    /\ ai_response = NoResponse
    /\ LET json_str == call_gemini(TRUE, ai_call.oracle)
           data == json_loads(json_str)
       IN ai_response' =
              Ok(IF data.ok THEN data.value ELSE DefaultMetricSet)
    /\ UNCHANGED <<score_vars, ai_call, store_vars, call_vars>>

\* POST /api/suggest-weights
suggest_weights ==
    /\ ai_call.endpoint = "suggest_weights"
    /\ ai_response = NoResponse
    /\ LET json_str == call_gemini(TRUE, ai_call.oracle)
           data == json_loads(json_str)
       IN ai_response' =
              Ok(IF data.ok THEN data.value ELSE default_weights)
    /\ UNCHANGED <<score_vars, ai_call, store_vars, call_vars>>

\* POST /api/verdict
generate_verdict ==
    /\ ai_call.endpoint = "generate_verdict"
    /\ ai_response = NoResponse
    /\ ai_response' = Ok([verdict |-> call_gemini(FALSE, ai_call.oracle)])
    /\ UNCHANGED <<score_vars, ai_call, store_vars, call_vars>>

\* POST /api/strategy
generate_strategy ==
    /\ ai_call.endpoint = "generate_strategy"
    /\ ai_response = NoResponse
    /\ ai_response' = Ok([strategy |-> call_gemini(FALSE, ai_call.oracle)])
    /\ UNCHANGED <<score_vars, ai_call, store_vars, call_vars>>

NextOracle ==
    \/ chat_jomo
    \/ analyze_stock
    \/ suggest_weights
    \/ generate_verdict
    \/ generate_strategy

SpecOracle == InitOracle /\ [][NextOracle]_vars

\* -------------------------------------------------- the persistence store

\* The documents POST /api/projects saves: ProjectData.model_dump(), with
\* targetReturn standing for everything of it besides id and name.
\* json.dumps and json.loads are modelled on JSON documents, where a text
\* denotes the document it was made of.
ProjectNames == {"Growth", "Income"}
ProjectTargets == {10}

ProjectDocs ==
    [id : ProjectIds, name : ProjectNames, targetReturn : ProjectTargets]

\* The rows of a table without those whose id is project_id.
RowsWithout(rows, project_id) ==
    SelectSeq(rows, LAMBDA r : r.id # project_id)

\* INSERT OR IGNORE: a row whose id is taken is dropped.
insert_or_ignore(rows, row) ==
    IF \E n \in 1..Len(rows) : rows[n].id = row.id THEN rows
    ELSE Append(rows, row)

\* INSERT OR REPLACE INTO projects: id is the PRIMARY KEY, so the row that
\* holds it, if any, is deleted, and the new row is added.
insert_or_replace(rows, row) ==
    Append(RowsWithout(rows, row.id), row)

\* DELETE FROM projects WHERE id = ?
delete_where_id(rows, project_id) == RowsWithout(rows, project_id)

\* database.get_all_projects: SELECT data FROM projects, each parsed.
get_all_projects(rows) ==
    [n \in 1..Len(rows) |-> json_loads(rows[n].data).value]

\* database.save_project
db_save_project(rows, project_data) ==
    insert_or_replace(rows, [id |-> project_data.id,
                             name |-> project_data.name,
                             data |-> json_dumps(project_data)])

\* database.delete_project
db_delete_project(rows, project_id) == delete_where_id(rows, project_id)

InitStore ==
    /\ ScoreIdle
    /\ OracleIdle
    /\ StoreIdle
    /\ CallsIdle

\* GET /api/projects
get_projects ==
    /\ listing' = get_all_projects(projects)
    /\ UNCHANGED <<score_vars, oracle_vars, projects, last_op, call_vars>>

\* POST /api/projects
save_project ==
    \E project \in ProjectDocs :
        /\ projects' = db_save_project(projects, project)
        /\ last_op' = [last_op EXCEPT
                          ![project.id] = [op |-> "save", doc |-> project]]
        /\ UNCHANGED <<score_vars, oracle_vars, listing, call_vars>>

\* DELETE /api/projects/{project_id}
delete_project ==
    \E project_id \in ProjectIds :
        /\ projects' = db_delete_project(projects, project_id)
        /\ last_op' = [last_op EXCEPT
                          ![project_id] = [op |-> "delete", doc |-> NoOp.doc]]
        /\ UNCHANGED <<score_vars, oracle_vars, listing, call_vars>>

NextStore ==
    \/ get_projects
    \/ save_project
    \/ delete_project

SpecStore == InitStore /\ [][NextStore]_vars

\* --------------------- calculate_master_score, called concurrently, by step

\* A mapping with one value malformed.
NullSectorMetrics == [Scenario1Metrics EXCEPT !["sector_pe"] = Null]

\* What the callers pass.
CallRequests ==
    {ScoreRequest(Scenario1Metrics, Scenario1Weights, 12),
     ScoreRequest(NoMetrics, NoWeights, 9),
     ScoreRequest(VolatileMetrics, Scenario1Weights, 20),
     ScoreRequest(NullSectorMetrics, NoWeights, 12)}

\* One module-level raw_scores dict for every call.
shared_raw_scores(c) == 1

\* The address of the dict "raw_scores = {}" creates in the call of caller c:
\* a new object in every call.
raw_scores_of(c) == c

InitCalls ==
    /\ ScoreIdle
    /\ OracleIdle
    /\ StoreIdle
    /\ call_args \in [Callers -> CallRequests]
    /\ frames = [c \in Callers |-> NoFrame]
    /\ raw_dicts = [a \in Callers |-> EmptyDict]

\* The frame of c moves to pc.
Goto(c, pc) == frames' = [frames EXCEPT ![c].pc = pc]

\* A comparison or an operation on None or a string raises TypeError, which
\* ends the call.
Raise(c) ==
    /\ frames' = [frames EXCEPT ![c].pc = "raised", ![c].result = TypeError]
    /\ UNCHANGED raw_dicts

\* raw_scores[key] = tier
Store(c, key, tier) ==
    raw_dicts' = [raw_dicts EXCEPT ![raw_scores_of(c)][key] = Num(tier)]

Others == <<score_vars, oracle_vars, store_vars, call_args>>

\* m = {...metrics.get(key, default)...}; raw_scores = {}
cms_defaults(c) ==
    /\ frames[c].pc = "call"
    /\ frames' = [frames EXCEPT
                     ![c].pc = "industry",
                     ![c].m = [k \in MetricKeys |->
                                  Get(call_args[c].metrics, k,
                                      IF k = "beta" THEN 10 ELSE 0)]]
    /\ raw_dicts' = [raw_dicts EXCEPT ![raw_scores_of(c)] = EmptyDict]
    /\ UNCHANGED Others

\* 1. Industry Growth
cms_industry(c) ==
    /\ frames[c].pc = "industry"
    /\ LET ind_growth == frames[c].m["industry_growth_3yr"]
       IN IF ~IsNum(ind_growth) THEN Raise(c)
          ELSE /\ Store(c, "industry", industry_score(ind_growth.n))
               /\ Goto(c, "profit")
    /\ UNCHANGED Others

\* 2. Net Profit Growth
cms_profit(c) ==
    /\ frames[c].pc = "profit"
    /\ LET prof_growth == frames[c].m["net_profit_growth_5yr"]
       IN IF ~IsNum(prof_growth) THEN Raise(c)
          ELSE /\ Store(c, "profit", profit_score(prof_growth.n))
               /\ Goto(c, "mos")
    /\ UNCHANGED Others

\* 3. MOS
cms_mos(c) ==
    /\ frames[c].pc = "mos"
    /\ LET stock_pe == frames[c].m["pe_ratio"]
           sect_pe == frames[c].m["sector_pe"]
       IN IF ~IsNum(sect_pe) \/ ~IsNum(stock_pe) THEN Raise(c)
          ELSE /\ Store(c, "mos", mos_score(stock_pe.n, sect_pe.n))
               /\ Goto(c, "yield")
    /\ UNCHANGED Others

\* 4. Dividend Yield
cms_yield(c) ==
    /\ frames[c].pc = "yield"
    /\ LET div_yield == frames[c].m["dividend_yield"]
           div_years == frames[c].m["dividend_years_consecutive"]
       IN IF ~IsNum(div_years) \/ (div_years.n >= 5 /\ ~IsNum(div_yield))
          THEN Raise(c)
          ELSE /\ Store(c, "yield", yield_score(div_yield.n, div_years.n))
               /\ Goto(c, "competition")
    /\ UNCHANGED Others

\* 5. Competitiveness
cms_competition(c) ==
    /\ frames[c].pc = "competition"
    /\ LET comp_growth == frames[c].m["company_growth_rate"]
           ind_growth == frames[c].m["industry_growth_3yr"]
       IN IF ~IsNum(comp_growth) THEN Raise(c)
          ELSE /\ Store(c, "competition",
                        competition_score(comp_growth.n, ind_growth.n))
               /\ Goto(c, "base_score")
    /\ UNCHANGED Others

\* Step A: Base Score Calculation, from the raw_scores dict
cms_base_score(c) ==
    /\ frames[c].pc = "base_score"
    /\ LET w == [k \in WeightKeys |->
                    Get(call_args[c].weights, k,
                        CASE k = "industry" -> 15
                          [] k = "profit" -> 25
                          [] k = "mos" -> 25
                          [] k = "yield_val" -> 20
                          [] k = "competition" -> 15)]
           raw == raw_dicts[raw_scores_of(c)]
           raw_scores == [k \in DOMAIN raw |-> raw[k].n]
       IN IF \E k \in WeightKeys : ~IsNum(w[k]) THEN Raise(c)
          ELSE /\ frames' =
                      [frames EXCEPT
                          ![c].pc = "risk_mult",
                          ![c].base_score =
                              base_score(raw_scores, w["industry"].n,
                                         w["profit"].n, w["mos"].n,
                                         w["yield_val"].n,
                                         w["competition"].n)]
               /\ UNCHANGED raw_dicts
    /\ UNCHANGED Others

\* Step B: Risk Multiplier Logic
cms_risk_mult(c) ==
    /\ frames[c].pc = "risk_mult"
    /\ LET beta == frames[c].m["beta"]
       IN IF ~IsNum(beta) THEN Raise(c)
          ELSE /\ frames' =
                      [frames EXCEPT
                          ![c].pc = "grading",
                          ![c].risk_mult =
                              risk_mult(call_args[c].target_return, beta.n)]
               /\ UNCHANGED raw_dicts
    /\ UNCHANGED Others

\* Step C: Final Grading, and the return of the report
cms_return(c) ==
    /\ frames[c].pc = "grading"
    /\ LET final == final_score(frames[c].base_score, frames[c].risk_mult)
           raw == raw_dicts[raw_scores_of(c)]
       IN frames' =
              [frames EXCEPT
                  ![c].pc = "done",
                  ![c].result =
                      [status |-> "ok",
                       baseScore |-> round1(frames[c].base_score),
                       finalScore |-> int(final),
                       grade |-> grade(final),
                       riskMult |-> frames[c].risk_mult,
                       rawScores |-> [k \in DOMAIN raw |-> raw[k].n]]]
    /\ UNCHANGED raw_dicts
    /\ UNCHANGED Others

NextCalls ==
    \E c \in Callers :
        \/ cms_defaults(c)
        \/ cms_industry(c)
        \/ cms_profit(c)
        \/ cms_mos(c)
        \/ cms_yield(c)
        \/ cms_competition(c)
        \/ cms_base_score(c)
        \/ cms_risk_mult(c)
        \/ cms_return(c)

SpecCalls == InitCalls /\ [][NextCalls]_vars

\* ------------------------------------------------------------ the claims

Returned == report.status = "ok"

\* The values calculate_master_score works on, after defaulting.
Metric(k) == Get(request.metrics, k, IF k = "beta" THEN 10 ELSE 0)

\* a/b truncated toward zero, b > 0.
TruncDiv(a, b) == IF a >= 0 THEN a \div b ELSE -((-a) \div b)

Scenario1Request == ScoreRequest(Scenario1Metrics, Scenario1Weights, 12)

\* C1 as stated: Scenario 1 returns rawScores {industry 100, profit 100,
\* mos 80, yield 100, competition 80}, baseScore 94.0, riskMult 1.0,
\* finalScore 94 and grade "A".
C1_Scenario1AsStated ==
    (request = Scenario1Request /\ report # NoReport) =>
        report = [status |-> "ok", baseScore |-> 940, finalScore |-> 94,
                  grade |-> "A", riskMult |-> 10,
                  rawScores |-> [industry |-> 100, profit |-> 100, mos |-> 80,
                                 yield |-> 100, competition |-> 80]]

\* C1 amended: Scenario 1 (pe_ratio 10 against sector_pe 15 is a discount of
\* one third, above 0.20) returns rawScores {industry 100, profit 100,
\* mos 100, yield 100, competition 80}, baseScore 97.0, riskMult 1.0,
\* finalScore 97 and grade "A".
C1_Scenario1 ==
    (request = Scenario1Request /\ report # NoReport) =>
        report = [status |-> "ok", baseScore |-> 970, finalScore |-> 97,
                  grade |-> "A", riskMult |-> 10,
                  rawScores |-> [industry |-> 100, profit |-> 100, mos |-> 100,
                                 yield |-> 100, competition |-> 80]]

C1_Witness == request = Scenario1Request /\ Returned

\* C2 as stated: for every input the reported finalScore is
\* floor(baseScore * riskMult) of the reported baseScore and riskMult.
C2_FinalIsFloor ==
    Returned =>
        report.finalScore = (report.baseScore * report.riskMult) \div 100

\* C2 amended: for every input the reported finalScore is the reported
\* baseScore * riskMult truncated toward zero; it is the floor whenever that
\* product is not negative.
C2_FinalIsTruncation ==
    Returned =>
        /\ report.finalScore =
               TruncDiv(report.baseScore * report.riskMult, 100)
        /\ report.baseScore >= 0 =>
               report.finalScore =
                   (report.baseScore * report.riskMult) \div 100

C2_Witness ==
    /\ Returned
    /\ report.baseScore < 0
    /\ (report.baseScore * report.riskMult) % 100 # 0
    /\ report.finalScore = 1 + (report.baseScore * report.riskMult) \div 100

\* C3 as stated: for target_return < 10 and beta >= 1.2, beta exactly 1.2
\* included, riskMult is 0.5.
C3_ConservativeFromOnePointTwo ==
    (Returned /\ request.target_return < 10 /\ Metric("beta").n >= 12) =>
        report.riskMult = 5

\* C3 amended: for target_return < 10 and beta > 1.2, riskMult is 0.5; at
\* beta exactly 1.2 it is 0.9.
C3_ConservativeAboveOnePointTwo ==
    (Returned /\ request.target_return < 10) =>
        /\ Metric("beta").n > 12 => report.riskMult = 5
        /\ Metric("beta").n = 12 => report.riskMult = 9

C3_Witness ==
    /\ Returned
    /\ request.target_return < 10
    /\ Metric("beta").n = 13
    /\ report.riskMult = 5

\* C4: calculate_master_score never raises; an absent or malformed field is
\* coerced to its default and a ScoreReport is returned.
C4_NeverRaises == report # NoReport => Returned

\* C5 as stated: for every input, negative weights included, the reported
\* finalScore is at most the reported baseScore.
C5_FinalAtMostBase ==
    Returned => 10 * report.finalScore <= report.baseScore

\* C5 amended: riskMult is at most 1.0 in every branch, and for every input
\* whose reported baseScore is not negative the reported finalScore is at most
\* the reported baseScore.
C5_FinalAtMostNonNegativeBase ==
    Returned =>
        /\ report.riskMult <= 10
        /\ report.baseScore >= 0 => 10 * report.finalScore <= report.baseScore

C5_Witness ==
    /\ Returned
    /\ report.baseScore > 1000
    /\ report.riskMult < 10
    /\ 10 * report.finalScore < report.baseScore

\* C6: the grade is a function of the reported integer finalScore: "A" iff
\* finalScore >= 80, "B" iff 60 <= finalScore < 80, "C" otherwise.
C6_GradeFromFinalScore ==
    Returned =>
        /\ report.grade = "A" <=> report.finalScore >= 80
        /\ report.grade = "B" <=>
               (60 <= report.finalScore /\ report.finalScore < 80)
        /\ report.grade = "C" <=> report.finalScore < 60

\* a product strictly between 79 and 80 is reported as 79 and graded "B"
C6_Witness ==
    /\ Returned
    /\ report.finalScore = 79
    /\ (report.baseScore * report.riskMult) % 100 # 0
    /\ report.grade = "B"

\* C7: with dividend_years_consecutive < 5 (a missing key counts as 0) the
\* yield sub-score is 0 whatever dividend_yield is; with
\* dividend_years_consecutive >= 5 it is 100, 80, 60 or 30, never 0.
C7_YieldBar ==
    Returned =>
        /\ Metric("dividend_years_consecutive").n < 5 =>
               report.rawScores["yield"] = 0
        /\ Metric("dividend_years_consecutive").n >= 5 =>
               report.rawScores["yield"] \in {100, 80, 60, 30}

C7_Witness ==
    /\ Returned
    /\ request.metrics["dividend_years_consecutive"] = Absent
    /\ request.metrics["dividend_yield"] = Num(10)
    /\ report.rawScores["yield"] = 0

\* C8: rawScores has exactly the five keys industry, profit, mos, yield and
\* competition, each a member of its axis's tier set.
C8_TierSets ==
    Returned =>
        /\ DOMAIN report.rawScores =
               {"industry", "profit", "mos", "yield", "competition"}
        /\ report.rawScores["industry"] \in {0, 60, 80, 100}
        /\ report.rawScores["profit"] \in {0, 40, 60, 80, 100}
        /\ report.rawScores["mos"] \in {0, 50, 80, 100}
        /\ report.rawScores["yield"] \in {0, 30, 60, 80, 100}
        /\ report.rawScores["competition"] \in {20, 50, 80, 100}

C8_Witness ==
    /\ Returned
    /\ report.rawScores["industry"] = 0
    /\ report.rawScores["competition"] = 20

\* The margin-of-safety table of the specification, with
\* mos_pct = (sector_pe - pe_ratio) / sector_pe written as the fraction
\* num / sector_pe.
SpecMos(pe_ratio, sector_pe) ==
    LET num == sector_pe - pe_ratio
    IN IF sector_pe > 0
       THEN CASE 5 * num > sector_pe -> 100
              [] 10 * num >= sector_pe /\ 5 * num <= sector_pe -> 80
              [] 10 * num >= -sector_pe /\ 10 * num < sector_pe -> 50
              [] OTHER -> 0
       ELSE IF 0 < pe_ratio /\ pe_ratio < 20 THEN 50 ELSE 0

\* C9: the margin-of-safety sub-score follows the table for every
\* (pe_ratio, sector_pe); sector_pe 0 gives 50 with pe_ratio 12 and 0 with
\* pe_ratio 25.
C9_MosTable ==
    Returned =>
        /\ report.rawScores["mos"] =
               SpecMos(Metric("pe_ratio").n, Metric("sector_pe").n)
        /\ (Metric("sector_pe").n = 0 /\ Metric("pe_ratio").n = 12) =>
               report.rawScores["mos"] = 50
        /\ (Metric("sector_pe").n = 0 /\ Metric("pe_ratio").n = 25) =>
               report.rawScores["mos"] = 0

C9_Witness ==
    /\ Returned
    /\ Metric("sector_pe").n = 0
    /\ Metric("pe_ratio").n = 12
    /\ report.rawScores["mos"] = 50

\* C10: in the Aggressive band (target_return >= 15) riskMult is 1.0 for
\* 1.2 <= beta <= 2.5, 0.9 for 0.9 <= beta < 1.2 and 0.6 for every other
\* beta, whatever the sub-scores and the weights are.
C10_AggressiveBand ==
    (Returned /\ request.target_return >= 15) =>
        report.riskMult =
            (IF 12 <= Metric("beta").n /\ Metric("beta").n <= 25 THEN 10
             ELSE IF 9 <= Metric("beta").n /\ Metric("beta").n < 12 THEN 9
             ELSE 6)

C10_Witness ==
    /\ Returned
    /\ request.target_return = 20
    /\ Metric("beta").n = 5
    /\ report.riskMult = 6

\* The mapping doc carries every key of keys.
Carries(doc, keys) ==
    \A k \in keys : k \in DOMAIN doc /\ doc[k].t # "absent"

IsApology(text) == text.kind = "plain" /\ text.str = Apology

\* C11: when the oracle fails no caller propagates the failure: chat, verdict
\* and strategy answer with the apology string, /api/analyze-stock with a
\* mapping that carries the eight recognized metric keys and
\* /api/suggest-weights with a mapping that carries the five weight keys.
C11_FallbackOfTheRightKind ==
    (ai_call.endpoint # "none" /\ ai_call.oracle.kind = "raise"
        /\ ai_response # NoResponse) =>
        /\ ai_response.status = "ok"
        /\ ai_call.endpoint = "chat_jomo" =>
               IsApology(ai_response.body.reply)
        /\ ai_call.endpoint = "generate_verdict" =>
               IsApology(ai_response.body.verdict)
        /\ ai_call.endpoint = "generate_strategy" =>
               IsApology(ai_response.body.strategy)
        /\ ai_call.endpoint = "analyze_stock" =>
               Carries(ai_response.body, MetricKeys)
        /\ ai_call.endpoint = "suggest_weights" =>
               Carries(ai_response.body, WeightKeys)

\* The documents get_all_projects returns for one id, in order.
DocsOf(rows, project_id) ==
    SelectSeq(get_all_projects(rows), LAMBDA d : d.id = project_id)

LastWriteWins ==
    \A i \in ProjectIds :
        DocsOf(projects, i) =
            (IF last_op[i].op = "save" THEN <<last_op[i].doc>> ELSE <<>>)

\* A step that is no operation on id i leaves the documents of i unchanged.
OtherIdsUnchanged ==
    \A i \in ProjectIds :
        last_op'[i] = last_op[i] =>
            DocsOf(projects', i) = DocsOf(projects, i)

\* C12: the store is last-write-wins per identifier: get_all_projects returns
\* exactly one document for each id whose most recent operation was a
\* save_project, equal to that save's argument, none for an id never saved
\* or deleted last, and an operation on one id leaves the documents of the
\* other ids unchanged.
C12_LastWriteWins == [](LastWriteWins) /\ [][OtherIdsUnchanged]_vars

\* an earlier listing held another document for id 1 and a document for
\* id 2: id 1 was saved again and id 2 deleted since
C12_Witness ==
    /\ listing # NoListing
    /\ Len(listing) = 2
    /\ last_op["1"].op = "save"
    /\ last_op["2"].op = "delete"
    /\ \E n \in 1..2 : listing[n].id = "1" /\ listing[n] # last_op["1"].doc
    /\ Len(get_all_projects(projects)) = 1

\* What the call of caller c must end with.
Expected(c) ==
    calculate_master_score(call_args[c].metrics, call_args[c].weights,
                           call_args[c].target_return)

Ended(c) == frames[c].pc \in {"done", "raised"}

EachCallItsOwnReport ==
    /\ \A c \in Callers : Ended(c) => frames[c].result = Expected(c)
    /\ \A c, d \in Callers :
           (Ended(c) /\ Ended(d) /\ call_args[c] = call_args[d]) =>
               frames[c].result = frames[d].result

\* C13: calculate_master_score holds no hidden state: however the calls of
\* concurrent callers interleave, each call ends with the report (or the
\* TypeError) its own metrics, weights and target_return determine, calls
\* with identical inputs end identically, and no step changes the mappings
\* a call was given.
C13_NoHiddenState ==
    [](EachCallItsOwnReport) /\ [][call_args' = call_args]_vars

\* caller 1 has returned its report while caller 2, with other inputs, is in
\* the middle of filling its own raw_scores
C13_Witness ==
    /\ frames[1].pc = "done"
    /\ frames[1].result = Expected(1)
    /\ frames[2].pc = "yield"
    /\ call_args[1] # call_args[2]
    /\ raw_dicts[raw_scores_of(2)]["mos"] # raw_dicts[raw_scores_of(1)]["mos"]

====
